---- MODULE Spec2Model ----
(***************************************************************************)
(* Model of samgeo/text_sam.py: the LangSAM orchestrator (predict,         *)
(* show_anns) and the command line entry main().  The detector and the     *)
(* segmenter are opaque: each call to them draws a response (a number of   *)
(* detections, one mask per box, or an exception) from a bounded set.      *)
(***************************************************************************)
EXTENDS Integers, Sequences, FiniteSets, TLC

\* ---- bounds of the model ----
MaxDet == 2          \* detection counts 0..MaxDet are explored
ImgH == 1            \* raster rows
ImgW == 2            \* raster columns
NumImages == 2       \* distinct rasters / in-memory images

\* ---- program constants ----
DtypeBits == 8               \* dtype=np.uint8
DefaultMultiplier == 255     \* mask_multiplier=255
MainMultiplier == 255        \* (mask_overlay > 0) * 255 in main()

WrapDet == 2 ^ DtypeBits     \* first detection count whose label i+1 wraps to 0
Images == 1..NumImages
DetCounts == (0..MaxDet) \cup {WrapDet}

\* ---- optional values: None / a value ----
None == << >>
Some(x) == << x >>

\* ---- rasters and masks ----
Rows == 1..ImgH
Cols == 1..ImgW
AllMasks == [Rows -> [Cols -> BOOLEAN]]
EmptyMask == [r \in Rows |-> [c \in Cols |-> FALSE]]
FullMask == [r \in Rows |-> [c \in Cols |-> TRUE]]

\* LangSAM.__init__: every session field starts as None
InitSession ==
  [source |-> None, image |-> None, masks |-> None, boxes |-> None,
   phrases |-> None, logits |-> None, prediction |-> None]

\* ---- the image argument ----
\* kind "path": an existing raster file; "url": a string starting with http;
\* "missing": a string path that does not exist; "unreadable": an existing
\* file rasterio cannot open; "mem": an in-memory (PIL) image object.
ImageInputs ==
  [kind : {"path", "mem"}, id : Images]
    \cup [kind : {"missing", "unreadable"}, id : {1}]
NoImage == [kind |-> "none", id |-> 0]

\* isinstance(image, str)
IsStr(image) == image.kind # "mem"

\* image.startswith("http") ... download_file(image): a local temporary path
download_file(image) == [kind |-> "tmp", id |-> image.id]

\* os.path.exists(image), mutated: the check always passes
path_exists_skipped(path) == TRUE

\* os.path.exists(image)
path_exists(path) == path.kind \in {"path", "tmp", "unreadable"}

\* rasterio.open(image) succeeds
raster_readable(path) == path.kind \in {"path", "tmp"}

\* ---- responses of the external models ----
DetResponses == {[raises |-> TRUE, n |-> 0]} \cup [raises : {FALSE}, n : DetCounts]
NoDet == [raises |-> FALSE, n |-> 0]

\* SAM returns one single-channel mask per box: shape (n, 1, H, W).
\* Every combination of masks for counts up to MaxDet; for the count WrapDet
\* only the last object is visible.
SegMasks(n) ==
  IF n <= MaxDet
    THEN [1..n -> {<< m >> : m \in AllMasks}]
    ELSE {[i \in 1..n |-> IF i = n THEN << m >> ELSE << EmptyMask >>] : m \in AllMasks}
\* The masks drawn where only their number matters: all empty, or all full.
SegMasksUniform(n) == {[i \in 1..n |-> << m >>] : m \in {EmptyMask, FullMask}}
NoSeg == [raises |-> FALSE, masks |-> << >>]
SegResponses(n, dense) ==
  [raises : {FALSE}, masks : IF dense THEN SegMasks(n) ELSE SegMasksUniform(n)]
    \cup {[raises |-> TRUE, masks |-> << >>]}

\* predict_dino: n aligned (box, logit, phrase) triples for the image
predict_dino(image_pil, det) ==
  [boxes   |-> [i \in 1..det.n |-> << image_pil, i >>],
   logits  |-> [i \in 1..det.n |-> i],
   phrases |-> [i \in 1..det.n |-> "object"]]

\* masks.squeeze(1), mutated: the last mask is lost
squeeze_drop(raw) == [i \in 1..(Len(raw) - 1) |-> raw[i][1]]

\* masks.squeeze(1): (n, 1, H, W) -> (n, H, W)
squeeze(raw) == [i \in 1..Len(raw) |-> raw[i][1]]

\* predict_sam followed by squeeze(1)
predict_sam(seg) == squeeze(seg.masks)

\* ---- the mask compositor of predict ----
\* mask.astype(dtype): a boolean becomes 0 or 1
AsInt(b) == IF b THEN 1 ELSE 0

\* ((mask > 0) * (i + 1)).astype(dtype) for one pixel; k is i + 1
LabelTerm(m, k, bits) == IF AsInt(m) > 0 THEN k % (2 ^ bits) ELSE 0

\* mask_overlay += ... over enumerate(zip(boxes, masks)), for one pixel: the
\* labels lo..hi added modulo 2^bits (the sum is split in halves to keep the
\* evaluation shallow; addition modulo 2^bits does not depend on the grouping)
RECURSIVE Accumulate(_, _, _, _, _, _)
Accumulate(masks, lo, hi, r, c, bits) ==
  IF lo > hi THEN 0
  ELSE IF lo = hi THEN LabelTerm(masks[lo][r][c], lo, bits)
  ELSE LET mid == (lo + hi) \div 2
       IN (Accumulate(masks, lo, mid, r, c, bits)
            + Accumulate(masks, mid + 1, hi, r, c, bits)) % (2 ^ bits)

\* the accumulator after the loop
Accumulator(masks, nboxes, bits) ==
  LET n == IF Len(masks) < nboxes THEN Len(masks) ELSE nboxes
  IN [r \in Rows |-> [c \in Cols |-> Accumulate(masks, 1, n, r, c, bits)]]

\* mask_overlay = (mask_overlay > 0) * mask_multiplier
Binarize(acc, mult) ==
  [r \in Rows |-> [c \in Cols |-> IF acc[r][c] > 0 THEN mult ELSE 0]]

mask_overlay(masks, nboxes, mult) ==
  Binarize(Accumulator(masks, nboxes, DtypeBits), mult)

\* array_to_image(array, output, source): one raster written to `output`
\* with the georeference of `source`
array_to_image(array, output, source) ==
  << [file |-> output, data |-> array, source |-> source] >>

\* lines 193-197, mutated: the results are appended to those of earlier calls
StoreAppending(s, masks, dino, overlay) ==
  [s EXCEPT !.masks = Some((IF s.masks = None THEN << >> ELSE s.masks[1]) \o masks),
            !.boxes = Some(dino.boxes),
            !.phrases = Some(dino.phrases),
            !.logits = Some(dino.logits),
            !.prediction = Some(overlay)]

\* self.masks = masks ... self.prediction = mask_overlay
StoreResults(s, masks, dino, overlay) ==
  [s EXCEPT !.masks = Some(masks),
            !.boxes = Some(dino.boxes),
            !.phrases = Some(dino.phrases),
            !.logits = Some(dino.logits),
            !.prediction = Some(overlay)]

\* what one call leaves behind
Result(s, outcome, err, ret, printed, di, si, wrote) ==
  [session |-> s, outcome |-> outcome, err |-> err, ret |-> ret,
   printed |-> printed, detInvoked |-> di, segInvoked |-> si, wrote |-> wrote,
   rendered |-> FALSE]

MsgNoObjects == "No objects found in the image."
MsgRunPredict == "Please run predict() first."

\* LangSAM.predict from the detector call on (lines 165-200); s already holds
\* self.image, hasNp says whether the local image_np is bound
PredictModels(s, image_pil, hasNp, output, return_results, mult, det, seg, wr) ==
  IF det.raises
    THEN Result(s, "raised", "DetectorError", None, << >>, TRUE, FALSE, << >>)
  ELSE LET dino == predict_dino(image_pil, det)
           segCalled == Len(dino.boxes) > 0
       IN
    IF segCalled /\ seg.raises
      THEN Result(s, "raised", "SegmenterError", None, << >>, TRUE, TRUE, << >>)
    ELSE LET masks == IF segCalled THEN predict_sam(seg) ELSE << >>
         IN
      IF Len(dino.boxes) = 0
        THEN Result(s, "returned", "", None, << MsgNoObjects >>, TRUE, segCalled, << >>)
      ELSE IF ~hasNp
        THEN Result(s, "raised", "UnboundLocalError", None, << >>, TRUE, segCalled, << >>)
      ELSE LET overlay == mask_overlay(masks, Len(dino.boxes), mult)
           IN
        IF output # None /\ wr = "fail"
          THEN Result(s, "raised", "WriteError", None, << >>, TRUE, segCalled, << >>)
        ELSE Result(StoreResults(s, masks, dino, overlay), "returned", "",
                    IF return_results
                      THEN Some(<< masks, dino.boxes, dino.phrases, dino.logits >>)
                      ELSE None,
                    << >>, TRUE, segCalled,
                    IF output # None
                      THEN array_to_image(overlay, output[1], s.source)
                      ELSE << >>)

\* LangSAM.predict (lines 145-200)
PredictResult(s, image, output, return_results, mult, det, seg, wr) ==
  IF IsStr(image)
    THEN LET path == IF image.kind = "url" THEN download_file(image) ELSE image
         IN
      IF ~path_exists(path)
        THEN Result(s, "raised", "ValueError", None, << >>, FALSE, FALSE, << >>)
      ELSE LET s1 == [s EXCEPT !.source = Some(path)]
           IN
        IF ~raster_readable(path)
          THEN Result(s1, "raised", "RasterioIOError", None, << >>, FALSE, FALSE, << >>)
        ELSE PredictModels([s1 EXCEPT !.image = Some(path.id)], path.id, TRUE,
                           output, return_results, mult, det, seg, wr)
  ELSE PredictModels([s EXCEPT !.image = Some(image.id)], image.id, FALSE,
                     output, return_results, mult, det, seg, wr)

\* blend_images(self.prediction, self.image, alpha=alpha, show=False)
blend_images(overlay, image) == << "blend", overlay, image >>

\* show_anns returns early: anns is None, or len(anns) == 0
anns_absent(anns) == anns = None \/ Len(anns[1]) = 0

\* LangSAM.show_anns (lines 232-271)
ShowAnnsResult(s, output, blend, wr) ==
  LET anns == s.prediction
  IN
    IF anns = None
      THEN [Result(s, "returned", "", None, << MsgRunPredict >>, FALSE, FALSE, << >>)
              EXCEPT !.rendered = FALSE]
    ELSE IF anns_absent(anns)
      THEN [Result(s, "returned", "", None, << MsgNoObjects >>, FALSE, FALSE, << >>)
              EXCEPT !.rendered = FALSE]
    ELSE IF output # None /\ wr = "fail"
      THEN [Result(s, "raised", "WriteError", None, << >>, FALSE, FALSE, << >>)
              EXCEPT !.rendered = TRUE]
    ELSE [Result(s, "returned", "", None, << >>, FALSE, FALSE,
                 IF output # None
                   THEN array_to_image(IF blend THEN blend_images(anns[1], s.image)
                                                ELSE anns[1],
                                       output[1], s.source)
                   ELSE << >>)
            EXCEPT !.rendered = TRUE]

\* mask_overlay += (mask > 0) * (i + 1) in main(), for one pixel; np.int64,
\* which the label sums of the model never overflow
RECURSIVE AccumulateWide(_, _, _, _, _)
AccumulateWide(masks, lo, hi, r, c) ==
  IF lo > hi THEN 0
  ELSE IF lo = hi THEN (IF AsInt(masks[lo][r][c]) > 0 THEN lo ELSE 0)
  ELSE LET mid == (lo + hi) \div 2
       IN AccumulateWide(masks, lo, mid, r, c) + AccumulateWide(masks, mid + 1, hi, r, c)

\* main() after model.predict returned (lines 300-335)
MainTail(path, r) ==
  IF r.ret = None
    THEN Result(r.session, "raised", "TypeError", None, r.printed,
                r.detInvoked, r.segInvoked, << >>)
  ELSE LET masks == r.ret[1][1]
           boxes == r.ret[1][2]
       IN
    IF Len(boxes) = 0
      THEN Result(r.session, "raised", "UnboundLocalError", None,
                  r.printed \o << MsgNoObjects >>, r.detInvoked, r.segInvoked, << >>)
    ELSE Result(r.session, "returned", "", None, r.printed,
                r.detInvoked, r.segInvoked,
                array_to_image(
                  Binarize([row \in Rows |-> [c \in Cols |->
                              AccumulateWide(masks, 1, Len(boxes), row, c)]],
                           MainMultiplier),
                  "mask.tif", Some(path)))

\* main() (lines 274-335): a fresh LangSAM, predict on the in-memory image with
\* the default output, mask_multiplier and return_results
MainResult(path, det, seg) ==
  IF ~(path_exists(path) /\ raster_readable(path))
    THEN Result(InitSession, "raised", "RasterioIOError", None, << >>, FALSE, FALSE, << >>)
  ELSE LET r == PredictResult(InitSession, [kind |-> "mem", id |-> path.id], None,
                              FALSE, DefaultMultiplier, det, seg, "na")
       IN IF r.outcome = "raised" THEN r ELSE MainTail(path, r)

\* ---- the state ----
VARIABLES
  session,     \* the fields of the LangSAM object
  last,        \* the last operation: its arguments, the responses it drew, its outcome
  predStatus,  \* the most recent predict on the session: none, raised, empty or found
  repeated     \* the last operation was a predict repeating the predict before it

vars == << session, last, predStatus, repeated >>

Outputs == {None, Some("out.tif")}
Multipliers == {DefaultMultiplier}
MainPaths == [kind : {"path"}, id : Images] \cup [kind : {"missing", "unreadable"}, id : {1}]

\* The responses an operation can draw, and the arguments it can be given.  A
\* model answers only when it is called.  A response or an argument that the
\* call never reads cannot change what the call does: such calls are explored
\* with one representative, the default argument or the all-empty masks.
ReachesDetector(image) ==
  IsStr(image) =>
    LET path == IF image.kind = "url" THEN download_file(image) ELSE image
    IN path_exists(path) /\ raster_readable(path)
DetFor(image, counts) ==
  IF ReachesDetector(image)
    THEN {d \in DetResponses : d.raises \/ d.n \in counts}
    ELSE {NoDet}
UnreadMasks(n) == [raises |-> FALSE, masks |-> [i \in 1..n |-> << EmptyMask >>]]
SegFor(image, det, dense) ==
  IF det.raises \/ det.n = 0 THEN {NoSeg}
  ELSE IF IsStr(image) THEN SegResponses(det.n, dense)
  ELSE {UnreadMasks(det.n), [raises |-> TRUE, masks |-> << >>]}
\* the call gets as far as the compositor (line 177)
Composes(image, det, seg) ==
  IsStr(image) /\ ReachesDetector(image) /\ ~det.raises /\ det.n > 0 /\ ~seg.raises
WrFor(output, reached) == IF output # None /\ reached THEN {"ok", "fail"} ELSE {"na"}

\* the calls of predict: the arguments and the responses the call draws
PredictCallsOver(images, counts, dense) ==
  UNION {UNION {UNION {UNION {UNION {
    [image : {image}, output : {output},
     return_results : IF Composes(image, det, seg) /\ wr # "fail" THEN BOOLEAN ELSE {FALSE},
     mult : IF Composes(image, det, seg) THEN Multipliers ELSE {DefaultMultiplier},
     det : {det}, seg : {seg}, wr : {wr}]
    : wr \in WrFor(output, Composes(image, det, seg))}
    : output \in IF Composes(image, det, seg) THEN Outputs ELSE {None}}
    : seg \in SegFor(image, det, dense)}
    : det \in DetFor(image, counts)}
    : image \in images}
PredictCalls == PredictCallsOver(ImageInputs, 0..MaxDet, FALSE)

\* the calls that exercise the compositor: readable rasters, detections found
\* and segmented with every combination of masks, no failing write; counts up
\* to MaxDet and the wrapping count
ComposeImages == [kind : {"path"}, id : Images] \cup {[kind |-> "url", id |-> 1]}
ComposeCalls(images) ==
  {c \in PredictCallsOver(images, (1..MaxDet) \cup {WrapDet}, TRUE) :
     ~c.det.raises /\ ~c.seg.raises /\ c.wr # "fail"}

Call(op, image, output, rr, mult, blend, det, seg, wr, r) ==
  [op |-> op, image |-> image, output |-> output, return_results |-> rr,
   mult |-> mult, blend |-> blend, det |-> det, seg |-> seg, wr |-> wr,
   outcome |-> r.outcome, err |-> r.err, ret |-> r.ret, printed |-> r.printed,
   detInvoked |-> r.detInvoked, segInvoked |-> r.segInvoked,
   rendered |-> r.rendered, wrote |-> r.wrote]

NoResult == Result(InitSession, "returned", "", None, << >>, FALSE, FALSE, << >>)

SameInputs(a, b) ==
  /\ a.image = b.image /\ a.output = b.output /\ a.return_results = b.return_results
  /\ a.mult = b.mult /\ a.det = b.det /\ a.seg = b.seg /\ a.wr = b.wr

Init ==
  /\ session = InitSession
  /\ last = Call("init", NoImage, None, FALSE, DefaultMultiplier, FALSE,
                 NoDet, NoSeg, "na", NoResult)
  /\ predStatus = "none"
  /\ repeated = FALSE

\* the state one call c of LangSAM.predict leaves behind
AfterPredict(c) ==
  LET r == PredictResult(session, c.image, c.output, c.return_results, c.mult,
                         c.det, c.seg, c.wr)
      call == Call("predict", c.image, c.output, c.return_results, c.mult, FALSE,
                   c.det, c.seg, c.wr, r)
  IN [session |-> r.session,
      last |-> call,
      predStatus |-> IF r.outcome = "raised" THEN "raised"
                     ELSE IF c.det.n = 0 THEN "empty" ELSE "found",
      repeated |-> (last.op = "predict" /\ SameInputs(last, call))]

\* one call of LangSAM.predict on the session
Predict ==
  \E c \in PredictCalls :
    \E after \in {AfterPredict(c)} :
      /\ session' = after.session
      /\ last' = after.last
      /\ predStatus' = after.predStatus
      /\ repeated' = after.repeated

\* one call of LangSAM.predict that reaches the compositor
PredictCompose ==
  \E c \in ComposeCalls(ComposeImages) :
    \E after \in {AfterPredict(c)} :
      /\ session' = after.session
      /\ last' = after.last
      /\ predStatus' = after.predStatus
      /\ repeated' = after.repeated

\* one call of LangSAM.show_anns on the session
ShowAnns ==
  \E output \in IF anns_absent(session.prediction) THEN {None}
                ELSE {None, Some("anns.tif")} :
    \E blend \in IF output = None THEN {TRUE} ELSE BOOLEAN,
       wr \in WrFor(output, ~anns_absent(session.prediction)) :
      \E r \in {ShowAnnsResult(session, output, blend, wr)} :
         /\ session' = r.session
         /\ last' = Call("show_anns", NoImage, output, FALSE, DefaultMultiplier, blend,
                         NoDet, NoSeg, wr, r)
         /\ UNCHANGED predStatus
         /\ repeated' = FALSE

\* one run of main(), the entry of the script (line 338): a run starts in a
\* fresh process, builds its own LangSAM and carries nothing over to the next run
Main ==
  /\ last.op \in {"init", "main"}
  /\ \E path \in MainPaths :
      \E det \in DetFor(path, 0..MaxDet) :
        \E seg \in SegFor(path, det, FALSE) :
          \E r \in {MainResult(path, det, seg)} :
             /\ last' = Call("main", path, None, FALSE, DefaultMultiplier, FALSE,
                             det, seg, "na", r)
             /\ repeated' = FALSE
             /\ UNCHANGED << session, predStatus >>

Next == Predict \/ ShowAnns \/ Main

Spec == Init /\ [][Next]_vars

\* the compositor alone: successful predictions on rasters
NextCompose == PredictCompose
SpecCompose == Init /\ [][NextCompose]_vars

\* ---- helpers of the properties ----
IsPredict(l) == l.op = "predict"

\* the masks the segmenter returned to the last call, one per box
LastMasks == squeeze(last.seg.masks)

\* the raster that is v where some mask covers the pixel and 0 elsewhere
Coverage(masks, v) ==
  [r \in Rows |-> [c \in Cols |->
     IF \E i \in 1..Len(masks) : masks[i][r][c] THEN v ELSE 0]]

\* the last operation found detections and neither model raised
LastDetected == ~last.det.raises /\ last.det.n >= 1 /\ ~last.seg.raises

\* C1: show_anns called when no predict has run, or when the most recent
\* predict found zero objects, prints a message, draws nothing, writes no
\* file and does not raise.
C1_ShowAnnsGuarded ==
  (last.op = "show_anns" /\ predStatus \in {"none", "empty"}) =>
    /\ ~last.rendered
    /\ last.printed # << >>
    /\ last.wrote = << >>
    /\ last.outcome = "returned"

\* C2: a predict call that raises leaves every session field as it was
\* before the call.
C2_FailedPredictKeepsSession ==
  [][(IsPredict(last') /\ last'.outcome = "raised") => session' = session]_vars

\* C3: whenever boxes is set, the stored masks, boxes, phrases and logits have
\* the same length, and so have the four components of a returned tuple.
C3_AlignedLengths ==
  /\ session.boxes # None =>
       /\ session.masks # None /\ session.phrases # None /\ session.logits # None
       /\ Len(session.masks[1]) = Len(session.boxes[1])
       /\ Len(session.phrases[1]) = Len(session.boxes[1])
       /\ Len(session.logits[1]) = Len(session.boxes[1])
  /\ (IsPredict(last) /\ last.ret # None) =>
       /\ Len(last.ret[1][1]) = Len(last.ret[1][2])
       /\ Len(last.ret[1][3]) = Len(last.ret[1][2])
       /\ Len(last.ret[1][4]) = Len(last.ret[1][2])

\* a prediction with several detections is stored and returned
C3_Witness ==
  /\ IsPredict(last) /\ last.ret # None
  /\ session.boxes # None /\ Len(session.boxes[1]) >= 2
  /\ Len(last.ret[1][1]) >= 2

\* C4: main() on a readable raster with at least one detection completes and
\* writes mask.tif: 255 where some mask covers the pixel, 0 elsewhere, with the
\* georeference of the input.
C4_MainWritesMask ==
  (last.op = "main" /\ last.image.kind = "path" /\ LastDetected) =>
    /\ last.outcome = "returned"
    /\ last.wrote = array_to_image(Coverage(LastMasks, MainMultiplier), "mask.tif",
                                   Some(last.image))

\* C5: predict on an in-memory image with at least one detection completes and
\* populates image, masks, boxes, phrases, logits and prediction as it does
\* for a raster given by path.
C5_InMemoryImage ==
  (IsPredict(last) /\ last.image.kind = "mem" /\ LastDetected) =>
    /\ last.outcome = "returned"
    /\ session.image = Some(last.image.id)
    /\ session.masks = Some(LastMasks)
    /\ session.boxes = Some(predict_dino(last.image.id, last.det).boxes)
    /\ session.phrases = Some(predict_dino(last.image.id, last.det).phrases)
    /\ session.logits = Some(predict_dino(last.image.id, last.det).logits)
    /\ session.prediction = Some(mask_overlay(LastMasks, last.det.n, last.mult))

\* C6: main() with zero detections prints the message, writes no mask.tif and
\* ends without raising.
C6_MainNoObjects ==
  (last.op = "main" /\ last.image.kind = "path" /\ ~last.det.raises /\ last.det.n = 0) =>
    /\ \E i \in 1..Len(last.printed) : last.printed[i] = MsgNoObjects
    /\ last.wrote = << >>
    /\ last.outcome = "returned"

\* C7: predict on a string path that does not exist raises the validation
\* error before the detector or the segmenter is invoked and leaves every
\* session field unchanged.
C7_MissingPathRejected ==
  [][(IsPredict(last') /\ last'.image.kind = "missing") =>
       /\ last'.outcome = "raised"
       /\ last'.err = "ValueError"
       /\ ~last'.detInvoked
       /\ ~last'.segInvoked
       /\ session' = session]_vars

\* a missing path was rejected while the session held an earlier result
C7_Witness ==
  /\ IsPredict(last) /\ last.image.kind = "missing" /\ last.outcome = "raised"
  /\ session.boxes # None /\ session.source # None

\* C8: in the overlay predict stores, a pixel is mask_multiplier exactly when
\* at least one mask covers it and 0 otherwise, for any number of detections.
C8_OverlayIsCoverage ==
  (IsPredict(last) /\ last.outcome = "returned" /\ LastDetected) =>
    session.prediction = Some(Coverage(LastMasks, last.mult))

\* C9: after a predict call that returns, image, source and every result field
\* the session holds belong to that call; the session never holds the image of
\* one call together with the boxes of another.
C9_LatestCallOnly ==
  /\ (IsPredict(last) /\ last.outcome = "returned") =>
       /\ session.image = Some(last.image.id)
       /\ session.boxes \in {None, Some(predict_dino(last.image.id, last.det).boxes)}
       /\ session.masks \in {None, Some(LastMasks)}
       /\ session.prediction \in {None, Some(mask_overlay(LastMasks, last.det.n, last.mult))}
  /\ (session.boxes # None /\ session.image # None) =>
       \A i \in 1..Len(session.boxes[1]) : session.boxes[1][i][1] = session.image[1]

\* what the last predict call does on a freshly constructed session
LastOnFresh ==
  PredictResult(InitSession, last.image, last.output, last.return_results, last.mult,
                last.det, last.seg, last.wr)

\* C10: a predict call repeated with identical inputs leaves the session, the
\* returned tuple and the written overlay as the first call left them, and
\* what a call returns, writes and stores as its result does not depend on
\* the session it started from.
C10_Idempotent ==
  /\ [](IsPredict(last) =>
          /\ last.outcome = LastOnFresh.outcome
          /\ last.ret = LastOnFresh.ret
          /\ last.wrote = LastOnFresh.wrote
          /\ (last.outcome = "returned" /\ last.det.n >= 1) =>
               /\ session.masks = LastOnFresh.session.masks
               /\ session.boxes = LastOnFresh.session.boxes
               /\ session.prediction = LastOnFresh.session.prediction)
  /\ [][(IsPredict(last) /\ IsPredict(last') /\ SameInputs(last, last')) =>
          /\ session' = session
          /\ last'.ret = last.ret
          /\ last'.outcome = last.outcome
          /\ last'.wrote = last.wrote]_vars

\* a prediction with detections was repeated with the same inputs
C10_Witness ==
  /\ repeated /\ IsPredict(last) /\ last.outcome = "returned"
  /\ last.det.n >= 1 /\ session.prediction # None

====
